---- MODULE Spec2Model ----
(***************************************************************************)
(* Model of the Feature Indexer (dataset/preprocessing.py, FeatureBuilder), *)
(* of the Negative Sampler (utils/samplingNEW.py, NegativeSamplingFeat)    *)
(* and of recommend_user (algorithms/bpr.py, algorithms/youtube_ranking.py).*)
(*                                                                         *)
(* Python lists and numpy arrays are TLA+ sequences (1-based); an index    *)
(* that the code writes into an array keeps the code's 0-based value.      *)
(* Python dicts are functions whose DOMAIN is the set of keys.             *)
(* The data a caller holds (the training columns, the new columns) is      *)
(* drawn in the initial state; the actions are the calls made with it.     *)
(* Numerical feature values are carried through unchanged by the code, so  *)
(* one representative column per position is used.                         *)
(***************************************************************************)
EXTENDS Integers, Sequences, FiniteSets

\* ---------------------------------------------------------------- bounds
MaxRows == 2
MaxTestRows == 1
MaxVal == 2
MaxNum == 1
MaxUsers == 2
MaxItems == 2
\* the scenario "3 numerical columns, 2 categorical columns with 2 and 3
\* distinct values": rows and raw values of its training data
ScenarioRows == 3
ScenarioMaxVal == 3
\* the sampler's data: interactions, users, items, negatives per positive
MaxData == 2
SamplerUsers == 2
MaxSamplerItems == 3
MaxNeg == 2
\* how far below zero the num_neg a caller passes goes
MaxBelowZero == 2
\* longest output that is shuffled (random=True)
MaxShuffle == 4
\* interactions of the one-user data sets
MaxLabelData == 4
\* sparse and dense columns of the column-layout data sets
MaxSparseCols == 3
MaxDenseCols == 2

\* recommend_user: users, items and distinct scores of the model
MaxRecUsers == 2
MaxRecItems == 3
MaxScore == 3

ColumnOrder == <<"a", "b">>
CatNames == {ColumnOrder[i] : i \in 1..Len(ColumnOrder)}
Vals == 1..MaxVal
TestVals == 1..(MaxVal + 1)

VARIABLES
  \* FeatureBuilder object
  include_user_item, n_users, n_items, total_count, feature_size,
  val_index_dict,
  \* "new", or the last call made on the object ("ValueError": a fit call
  \* that raised it)
  fb_op,
  \* history: the data the last fit call was given ("none", "train", "new")
  \* and what the last fit call on the training data left and returned
  fitted_on, train_fit,
  \* the caller's training data and what fit returned for it
  categorical_features, numerical_features, train_size,
  user_features, item_features, feature_indices, feature_values,
  \* the caller's new data and what transform returned for it
  test_cat_feat, test_num_feat, test_size, test_user_features,
  test_item_features, test_feature_indices, test_feature_values

fbObject == <<include_user_item, n_users, n_items, total_count, feature_size,
              val_index_dict>>
fbTrainData == <<categorical_features, numerical_features, train_size,
                 user_features, item_features>>
fbTestData == <<test_cat_feat, test_num_feat, test_size, test_user_features,
                test_item_features>>
fbVars == <<fbObject, fb_op, fitted_on, train_fit, fbTrainData, fbTestData,
            feature_indices, feature_values, test_feature_indices,
            test_feature_values>>

VARIABLES
  \* NegativeSamplingFeat object: dataset, data_info, num_neg
  dataset_user_indices, dataset_item_indices, train_user_consumed,
  data_n_items, user_sparse_col, item_sparse_col, user_dense_col,
  item_dense_col, num_neg,
  \* __call__: its flags, where it stands, its locals and what it returns
  dense, random, pc, random_mask, label_sampled, sparse_sampled,
  dense_sampled,
  \* sample_items: the interaction it is at, the negatives appended for it,
  \* the last candidate drawn, the list built so far
  ui_pos, neg_count, item_neg, item_indices_sampled

samplerData == <<dataset_user_indices, dataset_item_indices,
                 train_user_consumed, data_n_items, user_sparse_col,
                 item_sparse_col, user_dense_col, item_dense_col, num_neg>>
samplerCall == <<dense, random, pc, random_mask, label_sampled,
                 sparse_sampled, dense_sampled>>
sampleItems == <<ui_pos, neg_count, item_neg, item_indices_sampled>>
samplerVars == <<samplerData, samplerCall, sampleItems>>

VARIABLES
  \* recommend_user of a fitted BPR / YouTubeRanking model: the argument user
  \* as _check_unknown_user returned it, the argument n_rec, the model's
  \* n_items, user_consumed[user], the scores of the items for user
  user, n_rec, rec_n_items, consumed, recos,
  \* where the call stands, the local ids, what the call returned
  rec_pc, rec_ids, recommendation

recModel == <<user, rec_n_items, consumed, recos>>
recVars == <<recModel, n_rec, rec_pc, rec_ids, recommendation>>

vars == <<fbVars, samplerVars, recVars>>

\* ------------------------------------------------------- python helpers
Range(s) == {s[i] : i \in DOMAIN s}

Min(S) == CHOOSE x \in S : \A y \in S : x <= y

RECURSIVE SortedSeq(_)
SortedSeq(S) == IF S = {} THEN <<>>
                ELSE <<Min(S)>> \o SortedSeq(S \ {Min(S)})

\* np.unique(v): the sorted distinct values of v
NpUnique(v) == SortedSeq(Range(v))

\* position (0-based) of x in the sorted sequence u: the inverse index that
\* np.unique(v, return_inverse=True) gives for an element x of v
InverseIndex(u, x) == (CHOOSE j \in DOMAIN u : u[j] = x) - 1

\* dict(zip(keys, vals)): zip stops at the shorter of the two
Zip(keys, vals) ==
  LET n == IF Len(keys) <= Len(vals) THEN Len(keys) ELSE Len(vals)
  IN  [x \in {keys[j] : j \in 1..n} |->
         vals[CHOOSE j \in 1..n : keys[j] = x /\
                \A h \in 1..n : keys[h] = x => h <= j]]

\* d.update(e)
DictUpdate(d, e) ==
  [x \in (DOMAIN d) \cup (DOMAIN e) |-> IF x \in DOMAIN e THEN e[x] ELSE d[x]]

\* defaultdict(dict).__getitem__: a missing key is inserted with {} first
DefaultDictTouch(dd, k) ==
  IF k \in DOMAIN dd THEN dd ELSE [x \in (DOMAIN dd) \cup {k} |->
                                     IF x = k THEN <<>> ELSE dd[x]]

DictSet(dd, k, e) == [x \in (DOMAIN dd) \cup {k} |-> IF x = k THEN e ELSE dd[x]]

\* np.array(columns).T for columns of n entries each
Transpose(cols, n) == [r \in 1..n |-> [c \in 1..Len(cols) |-> cols[c][r]]]

\* np.array(columns) needs columns of one length: columns of different
\* lengths make np.array(...).T.astype(...) raise ValueError
SameLength(cols) == \A i, j \in DOMAIN cols : Len(cols[i]) = Len(cols[j])

\* np.array(columns).T: one row per entry of the columns; no column at all
\* gives the empty array
NpArrayT(cols) == IF cols = <<>> THEN <<>> ELSE Transpose(cols, Len(cols[1]))

\* [x] * n
Repeat(x, n) == [i \in 1..n |-> x]

\* ------------------------------------------------------ FeatureBuilder.fit
\* (mutant) the running total goes on from the object's total
FitFirstIndexKept == total_count

\* self.total_count = 0
FitFirstIndex == 0

\* the numeric block: column j gets index j-1 for every row
FitNumericalIndices(num, n) ==
  [j \in 1..Len(num) |-> Repeat(FitFirstIndex + j - 1, n)]

\* (mutant) the inverse indices are kept as np.unique gives them, without the
\* running total
FitColumnIndicesLocal(v, unique_vals, tc) ==
  [i \in 1..Len(v) |-> InverseIndex(unique_vals, v[i])]

\* the index fit gives to the rows of one categorical column
FitColumnIndices(v, unique_vals, tc) ==
  [i \in 1..Len(v) |-> InverseIndex(unique_vals, v[i]) + tc]

\* (mutant) fit keeps the dict of the previous calls
FitKeepsVocabulary(old) == old

\* self.val_index_dict = defaultdict(dict): the vocabulary fit starts from,
\* whatever the object held before
FitFreshVocabulary(old) == <<>>

\* (mutant) the vocabulary records the index inside the column's block
FitVocabularyEntryLocal(unique_vals, indices) ==
  Zip(unique_vals, [j \in 1..Len(unique_vals) |-> j - 1])

\* zip(unique_vals, np.unique(indices)): the entries fit records for a column
FitVocabularyEntry(unique_vals, indices) == Zip(unique_vals, NpUnique(indices))

\* (mutant) a categorical column advances the total by one, as a numerical
\* column does
FitAdvanceByOne(tc, unique_vals_length) == tc + 1

\* self.total_count += unique_vals_length
FitAdvance(tc, unique_vals_length) == tc + unique_vals_length

\* self.feature_size after the identity blocks
FitFeatureSize(tc) == IF include_user_item THEN tc + n_users + n_items ELSE tc

RECURSIVE FitCategorical(_, _, _, _)
FitCategorical(cols, tc, vdict, out) ==
  IF cols = <<>>
  THEN [total_count |-> tc, val_index_dict |-> vdict, columns |-> out]
  ELSE LET k == Head(cols).name
           v == Head(cols).vals
           unique_vals == NpUnique(v)
           indices == FitColumnIndices(v, unique_vals, tc)
           touched == DefaultDictTouch(vdict, k)
           entry == DictUpdate(touched[k],
                               FitVocabularyEntry(unique_vals, indices))
       IN  FitCategorical(Tail(cols), FitAdvance(tc, Len(unique_vals)),
                          DictSet(touched, k, entry), Append(out, indices))

FitIdentityIndices(ids, offset) == [i \in DOMAIN ids |-> ids[i] + offset]

Fit(cat, num, n, users, items) ==
  LET numCols == FitNumericalIndices(num, n)
      c == FitCategorical(cat, FitFirstIndex + Len(num),
                          FitFreshVocabulary(val_index_dict), numCols)
      catVals == [j \in 1..Len(cat) |-> Repeat(1, n)]
      idCols == IF include_user_item
                THEN << FitIdentityIndices(users, c.total_count),
                        FitIdentityIndices(items, c.total_count + n_users) >>
                ELSE <<>>
      idVals == IF include_user_item THEN <<Repeat(1, n), Repeat(1, n)>>
                ELSE <<>>
  IN  /\ total_count' = c.total_count
      /\ val_index_dict' = c.val_index_dict
      /\ feature_size' = FitFeatureSize(c.total_count)
      /\ IF SameLength(c.columns \o idCols)
            /\ SameLength(num \o catVals \o idVals)
         THEN /\ feature_indices' = NpArrayT(c.columns \o idCols)
              /\ feature_values' = NpArrayT(num \o catVals \o idVals)
              /\ fb_op' = "fit"
         ELSE /\ feature_indices' = <<>>
              /\ feature_values' = <<>>
              /\ fb_op' = "ValueError"
      /\ UNCHANGED <<include_user_item, n_users, n_items, fbTrainData,
                     fbTestData, test_feature_indices, test_feature_values>>
      /\ UNCHANGED <<samplerVars, recVars>>

\* ------------------------------------------------ FeatureBuilder.transform
\* pd.Series(v).map(d).fillna(fill)
SeriesMapFillna(v, d, fill) ==
  [i \in DOMAIN v |-> IF v[i] \in DOMAIN d THEN d[v[i]] ELSE fill]

\* (mutant) the fallback index is the total before the identity blocks
TransformFillTotalCount == total_count

\* indices.fillna(self.feature_size)
TransformFill == feature_size

TransformNumericalIndices(num, n) == [j \in 1..Len(num) |-> Repeat(j - 1, n)]

RECURSIVE TransformCategorical(_, _, _)
TransformCategorical(cols, vdict, out) ==
  IF cols = <<>>
  THEN [val_index_dict |-> vdict, columns |-> out]
  ELSE LET k == Head(cols).name
           touched == DefaultDictTouch(vdict, k)
           indices == SeriesMapFillna(Head(cols).vals, touched[k], TransformFill)
       IN  TransformCategorical(Tail(cols), touched, Append(out, indices))

\* (mutant) transform adds the final feature_size, as fit adds its running one
TransformUserOffsetFeatureSize == feature_size

TransformUserOffset == total_count
TransformItemOffset == total_count + n_users

Transform(cat, num, n, users, items) ==
  LET numCols == TransformNumericalIndices(num, n)
      c == TransformCategorical(cat, val_index_dict, numCols)
      catVals == [j \in 1..Len(cat) |-> Repeat(1, n)]
      idCols == IF include_user_item
                THEN << FitIdentityIndices(users, TransformUserOffset),
                        FitIdentityIndices(items, TransformItemOffset) >>
                ELSE <<>>
      idVals == IF include_user_item THEN <<Repeat(1, n), Repeat(1, n)>>
                ELSE <<>>
  IN  /\ fb_op # "new"
      /\ val_index_dict' = c.val_index_dict
      /\ IF SameLength(c.columns \o idCols)
            /\ SameLength(num \o catVals \o idVals)
         THEN /\ test_feature_indices' = NpArrayT(c.columns \o idCols)
              /\ test_feature_values' = NpArrayT(num \o catVals \o idVals)
              /\ fb_op' = "transform"
         ELSE /\ test_feature_indices' = <<>>
              /\ test_feature_values' = <<>>
              /\ fb_op' = "ValueError"
      /\ UNCHANGED <<include_user_item, n_users, n_items, total_count,
                     feature_size, fitted_on, train_fit, fbTrainData,
                     fbTestData, feature_indices, feature_values>>
      /\ UNCHANGED <<samplerVars, recVars>>

\* ------------------------------------------------------------ input sets
\* a dict of categorical columns has distinct names, in insertion order
NameSeqs ==
  {s \in UNION {[1..m -> CatNames] : m \in 0..Cardinality(CatNames)} :
     \A i, j \in DOMAIN s : i # j => s[i] # s[j]}

\* the training columns are the first columns of ColumnOrder
FitNameSeqs == {SubSeq(ColumnOrder, 1, m) : m \in 0..Len(ColumnOrder)}

CatColumns(ns, vs) == [c \in 1..Len(ns) |-> [name |-> ns[c], vals |-> vs[c]]]

\* numerical column j of an n-row data set
NumColumn(j, n) == [i \in 1..n |-> 10 * j + i]
NumColumns(m, n) == [j \in 1..m |-> NumColumn(j, n)]

\* the training identifiers: row i carries identifier (i-1) mod count
TrainIds(n, count) == IF include_user_item THEN [i \in 1..n |-> (i - 1) % count]
                      ELSE <<>>

\* the identifiers of new data: any known identifier in any row
TestIds(n, count) == IF include_user_item THEN [1..n -> 0..(count - 1)]
                     ELSE {<<>>}

FbTrainDataInit ==
  /\ train_size \in 0..MaxRows
  /\ \E m \in 0..MaxNum : numerical_features = NumColumns(m, train_size)
  /\ \E ns \in FitNameSeqs :
       \E vs \in [1..Len(ns) -> [1..train_size -> Vals]] :
         categorical_features = CatColumns(ns, vs)
  /\ user_features = TrainIds(train_size, n_users)
  /\ item_features = TrainIds(train_size, n_items)

FbTestDataInit ==
  /\ test_size \in 0..MaxTestRows
  /\ \E m \in 0..MaxNum : test_num_feat = NumColumns(m, test_size)
  /\ \E ns \in NameSeqs :
       \E vs \in [1..Len(ns) -> [1..test_size -> TestVals]] :
         test_cat_feat = CatColumns(ns, vs)
  /\ test_user_features \in TestIds(test_size, n_users)
  /\ test_item_features \in TestIds(test_size, n_items)

\* ------------------------------------------------------------------ Init
\* FeatureBuilder.__init__: only the four constructor arguments are set
FbNew ==
  /\ include_user_item \in BOOLEAN
  /\ n_users \in 1..MaxUsers
  /\ n_items \in 1..MaxItems
  /\ (~include_user_item) => (n_users = 1 /\ n_items = 1)
  /\ total_count = 0
  /\ feature_size = 0
  /\ val_index_dict = <<>>
  /\ fitted_on = "none"
  /\ train_fit = <<>>
  /\ fb_op = "new"
  /\ feature_indices = <<>>
  /\ feature_values = <<>>
  /\ test_feature_indices = <<>>
  /\ test_feature_values = <<>>

\* what a fit call left in the object and returned
FitOutcome ==
  [val_index_dict |-> val_index_dict, total_count |-> total_count,
   feature_size |-> feature_size, feature_indices |-> feature_indices,
   feature_values |-> feature_values]

\* fit on the training data
FitCall ==
  /\ Fit(categorical_features, numerical_features, train_size,
         user_features, item_features)
  /\ fitted_on' = "train"
  /\ train_fit' = IF fb_op' = "fit" THEN <<FitOutcome'>> ELSE train_fit

\* fit on the caller's other data
FitOnNewData ==
  /\ Fit(test_cat_feat, test_num_feat, test_size,
         test_user_features, test_item_features)
  /\ fitted_on' = "new"
  /\ UNCHANGED train_fit

TransformCall ==
  Transform(test_cat_feat, test_num_feat, test_size,
            test_user_features, test_item_features)


\* ===================================================== NegativeSamplingFeat
\* ------------------------------------------------------- numpy helpers
\* np.take(row, cols): the entries of row at the 0-based positions cols
NpTake(row, cols) == [p \in 1..Len(cols) |-> row[cols[p] + 1]]

\* (mutant) np.tile: the rows as a whole f times over
NpTile(rows, f) ==
  [q \in 1..(Len(rows) * f) |-> rows[((q - 1) % Len(rows)) + 1]]

\* np.repeat(rows, f, axis=0): every row f times in a row
NpRepeat(rows, f) == [q \in 1..(Len(rows) * f) |-> rows[((q - 1) \div f) + 1]]

\* a[mask]: the rows of a at the 0-based positions mask
NpIndex(a, mask) == [q \in 1..Len(mask) |-> a[mask[q] + 1]]

\* np.arange(n)
NpArange(n) == [p \in 1..n |-> p - 1]

\* the position of the least entry of s among the positions P (the first one
\* when equal entries exist)
ArgMin(s, P) ==
  CHOOSE p \in P : \A q \in P : s[p] < s[q] \/ (s[p] = s[q] /\ p <= q)

RECURSIVE ArgsortFrom(_, _)
ArgsortFrom(s, P) ==
  IF P = {} THEN <<>>
  ELSE <<ArgMin(s, P) - 1>> \o ArgsortFrom(s, P \ {ArgMin(s, P)})

\* np.argsort(s): the 0-based positions of s in ascending order of the entry
NpArgsort(s) == ArgsortFrom(s, DOMAIN s)

\* np.random.permutation(range(n))
NpPermutations(n) ==
  {f \in [1..n -> 0..(n - 1)] : \A a, b \in 1..n : a # b => f[a] # f[b]}

\* -------------------------------------------------- dataset and data_info
\* what column c holds for user u or for item i; every column carries its own
\* position, so that a misplaced column shows
UserSparseValue(u, c) == 100 + 10 * c + u
ItemSparseValue(i, c) == 200 + 10 * c + i
UserDenseValue(u, c) == 300 + 10 * c + u
ItemDenseValue(i, c) == 400 + 10 * c + i

DatasetLen == Len(dataset_user_indices)

\* dataset.sparse_indices: one row per interaction, columns in original order
DatasetSparseIndices ==
  [r \in 1..DatasetLen |->
     [p \in 1..(Len(user_sparse_col) + Len(item_sparse_col)) |->
        IF (p - 1) \in Range(user_sparse_col)
        THEN UserSparseValue(dataset_user_indices[r], p - 1)
        ELSE ItemSparseValue(dataset_item_indices[r], p - 1)]]

\* dataset.dense_values
DatasetDenseValues ==
  [r \in 1..DatasetLen |->
     [p \in 1..(Len(user_dense_col) + Len(item_dense_col)) |->
        IF (p - 1) \in Range(user_dense_col)
        THEN UserDenseValue(dataset_user_indices[r], p - 1)
        ELSE ItemDenseValue(dataset_item_indices[r], p - 1)]]

\* data_info.item_sparse_unique: per item, its item-side sparse columns
ItemSparseUnique ==
  [i \in 0..(data_n_items - 1) |->
     [p \in 1..Len(item_sparse_col) |-> ItemSparseValue(i, item_sparse_col[p])]]

\* data_info.item_dense_unique
ItemDenseUnique ==
  [i \in 0..(data_n_items - 1) |->
     [p \in 1..Len(item_dense_col) |-> ItemDenseValue(i, item_dense_col[p])]]

\* ------------------------------------------------ _label_negative_sampling
\* (mutant) the positives are labelled as if they came first
LabelPositivesFirst ==
  [q \in 1..(DatasetLen * (num_neg + 1)) |-> IF q <= DatasetLen THEN 1 ELSE 0]

\* np.zeros(total_length) refuses a negative length and labels[::factor] a
\* step of zero: both raise ValueError
LabelRaises ==
  LET factor == num_neg + 1
      total_length == DatasetLen * factor
  IN  total_length < 0 \/ factor = 0

LabelNegativeSampling ==
  LET factor == num_neg + 1
      total_length == DatasetLen * factor
  IN  [q \in 1..total_length |-> IF (q - 1) % factor = 0 THEN 1 ELSE 0]

\* ----------------------------------------------- _sparse_negative_sampling
\* (mutant) the columns are indexed by orig_cols itself, not by its argsort
ColReindexByOrigCols(orig_cols) == orig_cols

\* np.arange(len(orig_cols))[np.argsort(orig_cols)]
ColReindex(orig_cols) == NpIndex(NpArange(Len(orig_cols)), NpArgsort(orig_cols))

\* np.concatenate([user_sampled, item_sampled], axis=-1)[:, col_reindex]
ConcatReindex(user_sampled, item_sampled, col_reindex) ==
  [q \in 1..Len(user_sampled) |->
     NpIndex(user_sampled[q] \o item_sampled[q], col_reindex)]

SparseNegativeSampling(items) ==
  LET user_sparse_indices ==
        [r \in 1..DatasetLen |-> NpTake(DatasetSparseIndices[r], user_sparse_col)]
      user_sparse_sampled == NpRepeat(user_sparse_indices, num_neg + 1)
      item_sparse_sampled == [q \in 1..Len(items) |-> ItemSparseUnique[items[q]]]
      orig_cols == user_sparse_col \o item_sparse_col
  IN  IF Len(user_sparse_sampled) # Len(item_sparse_sampled)
      THEN [assert |-> FALSE, rows |-> <<>>]
      ELSE [assert |-> TRUE,
            rows |-> ConcatReindex(user_sparse_sampled, item_sparse_sampled,
                                   ColReindex(orig_cols))]

\* ------------------------------------------------ _dense_negative_sampling
DenseNegativeSampling(items) ==
  LET user_dense_values ==
        [r \in 1..DatasetLen |-> NpTake(DatasetDenseValues[r], user_dense_col)]
      user_dense_sampled == NpRepeat(user_dense_values, num_neg + 1)
      item_dense_sampled == [q \in 1..Len(items) |-> ItemDenseUnique[items[q]]]
      orig_cols == user_dense_col \o item_dense_col
  IN  IF Len(user_dense_sampled) # Len(item_dense_sampled)
      THEN [assert |-> FALSE, rows |-> <<>>]
      ELSE [assert |-> TRUE,
            rows |-> ConcatReindex(user_dense_sampled, item_dense_sampled,
                                   ColReindex(orig_cols))]

\* ---------------------------------------------------------------- __call__
\* (mutant) the labels get a permutation of their own
LabelMaskOfItsOwn(mask) == [q \in DOMAIN mask |-> mask[Len(mask) + 1 - q]]

\* the mask applied to the label array
LabelMask(mask) == mask
\* the mask applied to the sparse array
SparseMask(mask) == mask
\* the mask applied to the dense array
DenseMask(mask) == mask

\* lines 15-23: the permutation is drawn, the labels are built and shuffled,
\* sample_items is entered.  The permutation is kept only when random=True,
\* the only case in which the code reads it.
Call(d, rnd) ==
  LET total_length == DatasetLen * (num_neg + 1)
  IN  /\ pc \in {"idle", "done"}
      /\ rnd => total_length <= MaxShuffle
      /\ dense' = d
      /\ random' = rnd
      /\ sparse_sampled' = <<>>
      /\ dense_sampled' = <<>>
      /\ item_indices_sampled' = <<>>
      /\ ui_pos' = 1
      /\ neg_count' = 0
      /\ item_neg' = -1
      /\ IF LabelRaises
         THEN /\ pc' = "ValueError"
              /\ random_mask' = <<>>
              /\ label_sampled' = <<>>
         ELSE /\ pc' = "for_ui"
              /\ random_mask' \in (IF rnd THEN NpPermutations(total_length)
                                   ELSE {<<>>})
              /\ label_sampled' = IF rnd
                                  THEN NpIndex(LabelNegativeSampling,
                                               LabelMask(random_mask'))
                                  ELSE LabelNegativeSampling
      /\ UNCHANGED <<samplerData, fbVars, recVars>>

SamplerCall == \E d \in BOOLEAN, rnd \in BOOLEAN : Call(d, rnd)

\* ------------------------------------------------------------ sample_items
\* the outer loop takes the next (u, i) and appends i
AppendPositive ==
  /\ pc = "for_ui"
  /\ ui_pos <= DatasetLen
  /\ item_indices_sampled' =
       Append(item_indices_sampled, dataset_item_indices[ui_pos])
  /\ neg_count' = 0
  /\ IF num_neg > 0
     THEN pc' = "for_neg" /\ ui_pos' = ui_pos
     ELSE pc' = "for_ui" /\ ui_pos' = ui_pos + 1
  /\ UNCHANGED <<samplerData, dense, random, random_mask, label_sampled,
                 sparse_sampled, dense_sampled, item_neg, fbVars, recVars>>

\* (mutant) only the positive item of the interaction is refused
RejectedOnlyPositive(u, x) == x = dataset_item_indices[ui_pos]

\* the candidate x is kept unless the user consumed it
Rejected(u, x) == x \in train_user_consumed[u]

\* (mutant) the candidates are drawn from 1 on, as for identifiers that
\* start at 1
RandIntFromOne(n) == 1..(n - 1)

\* np.random.randint(0, n_items)
RandInt(n) == 0..(n - 1)

\* the draw of candidate x in the inner loop: a consumed candidate is drawn
\* again, any other one is appended
Draw(x) ==
  /\ pc = "for_neg"
  /\ x \in RandInt(data_n_items)
  /\ item_neg' = x
  /\ IF Rejected(dataset_user_indices[ui_pos], x)
     THEN UNCHANGED <<pc, ui_pos, neg_count, item_indices_sampled>>
     ELSE /\ item_indices_sampled' = Append(item_indices_sampled, x)
          /\ IF neg_count + 1 < num_neg
             THEN /\ neg_count' = neg_count + 1
                  /\ UNCHANGED <<pc, ui_pos>>
             ELSE /\ neg_count' = 0
                  /\ ui_pos' = ui_pos + 1
                  /\ pc' = "for_ui"
  /\ UNCHANGED <<samplerData, dense, random, random_mask, label_sampled,
                 sparse_sampled, dense_sampled, fbVars, recVars>>

\* one draw of the inner loop
DrawNegative == \E x \in 0..(MaxSamplerItems - 1) : Draw(x)

\* np.array(item_indices_sampled) is an integer array unless the list is
\* empty; the empty list gives a float array, which item_sparse_unique[...]
\* refuses as an index (IndexError)
IntegerArray(items) == items # <<>>

\* lines 24-32: sample_items has returned; the sparse and the dense array are
\* assembled, shuffled with the same mask, and returned
Finish ==
  /\ pc = "for_ui"
  /\ ui_pos > DatasetLen
  /\ LET sparse == SparseNegativeSampling(item_indices_sampled)
         dns == DenseNegativeSampling(item_indices_sampled)
     IN  IF ~IntegerArray(item_indices_sampled)
         THEN /\ pc' = "IndexError"
              /\ UNCHANGED <<sparse_sampled, dense_sampled>>
         ELSE IF ~sparse.assert \/ (dense /\ ~dns.assert)
         THEN /\ pc' = "AssertionError"
              /\ UNCHANGED <<sparse_sampled, dense_sampled>>
         ELSE /\ pc' = "done"
              /\ sparse_sampled' =
                   IF random
                   THEN NpIndex(sparse.rows, SparseMask(random_mask))
                   ELSE sparse.rows
              /\ dense_sampled' =
                   IF ~dense THEN <<>>
                   ELSE IF random
                        THEN NpIndex(dns.rows, DenseMask(random_mask))
                        ELSE dns.rows
  /\ UNCHANGED <<samplerData, dense, random, random_mask, label_sampled,
                 sampleItems, fbVars, recVars>>

\* ------------------------------------------------------- the sampler's data
\* train_user_consumed: per user, the items of the user's interactions
ConsumedOf(users, items) ==
  [u \in 0..(SamplerUsers - 1) |->
     {items[r] : r \in {q \in DOMAIN users : users[q] = u}}]

\* a split of the columns 0..n-1 into a user-side and an item-side list
Layouts(n) ==
  {<<SubSeq(f, 1, m), SubSeq(f, m + 1, n)>> :
     f \in NpPermutations(n), m \in 0..n}

SamplerNew ==
  /\ dense = FALSE
  /\ random = FALSE
  /\ pc = "idle"
  /\ random_mask = <<>>
  /\ label_sampled = <<>>
  /\ sparse_sampled = <<>>
  /\ dense_sampled = <<>>
  /\ ui_pos = 1
  /\ neg_count = 0
  /\ item_neg = -1
  /\ item_indices_sampled = <<>>

\* a few interactions of any users and items; item-side column first
GeneralData ==
  /\ \E len \in 0..MaxData :
       /\ dataset_user_indices \in [1..len -> 0..(SamplerUsers - 1)]
       /\ data_n_items \in 2..MaxSamplerItems
       /\ dataset_item_indices \in [1..len -> 0..(data_n_items - 1)]
  /\ num_neg \in (0 - MaxBelowZero)..MaxNeg
  /\ user_sparse_col = <<1>>
  /\ item_sparse_col = <<0>>
  /\ user_dense_col = <<0>>
  /\ item_dense_col = <<1>>

\* one user who interacted with item 0 again and again, two items
OneUserData ==
  /\ \E len \in 0..MaxLabelData :
       /\ dataset_user_indices = [r \in 1..len |-> 0]
       /\ dataset_item_indices = [r \in 1..len |-> 0]
  /\ data_n_items = 2
  /\ num_neg \in (0 - MaxBelowZero)..MaxNeg
  /\ user_sparse_col = <<1>>
  /\ item_sparse_col = <<0>>
  /\ user_dense_col = <<0>>
  /\ item_dense_col = <<1>>

\* one interaction, any split of the columns into user side and item side
LayoutData ==
  /\ dataset_user_indices = <<1>>
  /\ dataset_item_indices = <<0>>
  /\ data_n_items = 2
  /\ num_neg = 1
  /\ \E n \in 0..MaxSparseCols : \E lay \in Layouts(n) :
       user_sparse_col = lay[1] /\ item_sparse_col = lay[2]
  /\ \E n \in 0..MaxDenseCols : \E lay \in Layouts(n) :
       user_dense_col = lay[1] /\ item_dense_col = lay[2]

SamplerDataInit ==
  /\ GeneralData \/ OneUserData \/ LayoutData
  /\ train_user_consumed = ConsumedOf(dataset_user_indices, dataset_item_indices)

\* the variables of the part that a specification leaves alone
SamplerIdle ==
  /\ SamplerNew
  /\ dataset_user_indices = <<>>
  /\ dataset_item_indices = <<>>
  /\ train_user_consumed = ConsumedOf(<<>>, <<>>)
  /\ data_n_items = 2
  /\ num_neg = 1
  /\ user_sparse_col = <<>>
  /\ item_sparse_col = <<>>
  /\ user_dense_col = <<>>
  /\ item_dense_col = <<>>

FbIdle ==
  /\ FbNew
  /\ ~include_user_item
  /\ train_size = 0
  /\ numerical_features = <<>>
  /\ categorical_features = <<>>
  /\ user_features = <<>>
  /\ item_features = <<>>
  /\ test_size = 0
  /\ test_num_feat = <<>>
  /\ test_cat_feat = <<>>
  /\ test_user_features = <<>>
  /\ test_item_features = <<>>

\* ============================================================ recommend_user
\* BPR.recommend_user (bpr.py 257-273); YouTubeRanking.recommend_user
\* (youtube_ranking.py 261-291) takes the same steps on the scores its
\* network gives.  The scores are the values after the sigmoid.
\* `if not user`: the truth value python gives the index
NotUser(u) == u = 0

\* recos[i] for the item i
Score(i) == recos[i + 1]

\* the arrays of k different items
DistinctItems(k) ==
  {f \in [1..k -> 0..(rec_n_items - 1)] :
     \A a, b \in 1..k : a # b => f[a] # f[b]}

\* np.argpartition(recos, -count)[-count:]: the item at position -count is
\* the one a full sort puts there, no later item scores less and no earlier
\* one more; the order of the later ones is not determined.  count = 0 gives
\* np.argpartition(recos, 0)[0:], the whole array behind a least item.
ArgPartitionTail(count) ==
  LET k == IF count = 0 THEN rec_n_items ELSE count
  IN  {f \in DistinctItems(k) :
         /\ \A a \in 1..k : Score(f[1]) <= Score(f[a])
         /\ \A j \in 0..(rec_n_items - 1) :
              j \notin Range(f) => Score(j) <= Score(f[1])}

\* the sequence s without its position p
RemoveAt(s, p) ==
  [q \in 1..(Len(s) - 1) |-> IF q < p THEN s[q] ELSE s[q + 1]]

\* sorted(zip(ids, recos[ids]), key=lambda x: -x[1]): the (item, score) pairs
\* by falling score; sorted is stable, equal scores keep the order of ids
RECURSIVE Rank(_)
Rank(f) ==
  IF f = <<>> THEN <<>>
  ELSE LET p == CHOOSE a \in DOMAIN f : \A b \in DOMAIN f :
                  \/ Score(f[a]) > Score(f[b])
                  \/ (Score(f[a]) = Score(f[b]) /\ a <= b)
       IN  <<(<<f[p], Score(f[p])>>)>> \o Rank(RemoveAt(f, p))

\* (rec for rec in rank if rec[0] not in consumed)
RECURSIVE NotConsumed(_)
NotConsumed(rank) ==
  IF rank = <<>> THEN <<>>
  ELSE (IF Head(rank)[1] \in consumed THEN <<>> ELSE <<Head(rank)>>)
       \o NotConsumed(Tail(rank))

\* list(islice(s, n))
ISlice(s, n) == SubSeq(s, 1, IF Len(s) < n THEN Len(s) ELSE n)

\* what recommend_user returns: None, or a list of (item, score) pairs
ReturnNone == [none |-> TRUE, list |-> <<>>]
ReturnList(l) == [none |-> FALSE, list |-> l]

\* lines 257-266: the test of user, consumed, count and the argpartition
RecommendUserCall ==
  /\ rec_pc \in {"idle", "returned"}
  /\ \E n \in 0..(rec_n_items - Cardinality(consumed)) :
       /\ n_rec' = n
       /\ IF NotUser(user)
          THEN /\ rec_pc' = "returned"
               /\ recommendation' = ReturnNone
               /\ rec_ids' = <<>>
          ELSE /\ rec_pc' = "rank"
               /\ rec_ids' \in ArgPartitionTail(n + Cardinality(consumed))
               /\ UNCHANGED recommendation
  /\ UNCHANGED <<recModel, fbVars, samplerVars>>

\* lines 267-272: the pairs are sorted, the consumed ones skipped, the first
\* n_rec returned
RecommendUserReturn ==
  /\ rec_pc = "rank"
  /\ recommendation' = ReturnList(ISlice(NotConsumed(Rank(rec_ids)), n_rec))
  /\ rec_pc' = "returned"
  /\ UNCHANGED <<recModel, n_rec, rec_ids, fbVars, samplerVars>>

\* a fitted model: a known user, the user's consumed items and scores
RecModelInit ==
  /\ user \in 0..(MaxRecUsers - 1)
  /\ rec_n_items \in 1..MaxRecItems
  /\ consumed \in SUBSET (0..(rec_n_items - 1))
  /\ recos \in [1..rec_n_items -> 1..MaxScore]

RecNew ==
  /\ n_rec = 0
  /\ rec_pc = "idle"
  /\ rec_ids = <<>>
  /\ recommendation = ReturnNone

RecIdle ==
  /\ RecNew
  /\ user = 0
  /\ rec_n_items = 1
  /\ consumed = {}
  /\ recos = <<1>>

\* ------------------------------------------------------- specifications
\* the FeatureBuilder: any calls of fit and transform with the caller's data
Init == FbNew /\ FbTrainDataInit /\ FbTestDataInit /\ SamplerIdle /\ RecIdle

Next == FitCall \/ TransformCall

Spec == Init /\ [][Next]_vars

\* ------------------------------------------------- the fit scenario
\* a new FeatureBuilder(include_user_item=False) and training data with 3
\* numerical columns and 2 categorical columns holding 2 and 3 distinct values
ScenarioInit ==
  /\ SamplerIdle
  /\ RecIdle
  /\ FbNew
  /\ ~include_user_item
  /\ train_size = ScenarioRows
  /\ numerical_features = NumColumns(3, train_size)
  /\ \E vs \in [1..2 -> [1..train_size -> 1..ScenarioMaxVal]] :
       /\ Cardinality(Range(vs[1])) = 2
       /\ Cardinality(Range(vs[2])) = 3
       /\ categorical_features = CatColumns(ColumnOrder, vs)
  /\ user_features = <<>>
  /\ item_features = <<>>
  /\ test_size = 0
  /\ test_num_feat = <<>>
  /\ test_cat_feat = <<>>
  /\ test_user_features = <<>>
  /\ test_item_features = <<>>

ScenarioNext == FitCall

SpecScenario == ScenarioInit /\ [][ScenarioNext]_vars

\* --------------------------------------------------- fitting again
\* one object fitted on the training data and on other data, in any order,
\* with transform calls in between
RefitInit == Init /\ n_users = 1 /\ n_items = 1

RefitNext == FitCall \/ FitOnNewData \/ TransformCall

SpecRefit == RefitInit /\ [][RefitNext]_vars

\* ------------------------------------------- identifiers of any value
\* the identifiers of data that were not indexed with the known counts: any
\* value from -1 to count (one below and one beyond the known range)
AnyIds(n, count) == [1..n -> (-1)..count]

\* new data with the columns of the training data and any identifiers
IdsTestDataInit ==
  /\ test_size \in 0..MaxTestRows
  /\ test_num_feat = NumColumns(Len(numerical_features), test_size)
  /\ \E vs \in [1..Len(categorical_features) -> [1..test_size -> TestVals]] :
       test_cat_feat =
         CatColumns([c \in DOMAIN categorical_features |->
                       categorical_features[c].name], vs)
  /\ test_user_features \in AnyIds(test_size, n_users)
  /\ test_item_features \in AnyIds(test_size, n_items)

IdsInit ==
  /\ FbNew
  /\ include_user_item
  /\ FbTrainDataInit
  /\ train_size <= MaxTestRows
  /\ IdsTestDataInit
  /\ SamplerIdle
  /\ RecIdle

IdsNext == FitCall \/ FitOnNewData \/ TransformCall

SpecIds == IdsInit /\ [][IdsNext]_vars

\* --------------------------------------------- columns of any length
\* training data whose columns and identifier arrays need not have
\* train_size entries
ColumnsOfAnyLength ==
  /\ train_size \in 0..MaxRows
  /\ \E m \in 0..MaxNum, ln \in 0..MaxRows :
       numerical_features = NumColumns(m, ln)
  /\ \E ns \in FitNameSeqs :
       \E vs \in [1..Len(ns) -> UNION {[1..lc -> Vals] : lc \in 0..MaxRows}] :
         categorical_features = CatColumns(ns, vs)
  /\ \E lu \in 0..MaxRows : user_features = TrainIds(lu, n_users)
  /\ \E li \in 0..MaxRows : item_features = TrainIds(li, n_items)

LengthsInit ==
  /\ FbNew
  /\ n_users = 1
  /\ n_items = 1
  /\ ColumnsOfAnyLength
  /\ test_size = 0
  /\ test_num_feat = <<>>
  /\ test_cat_feat = <<>>
  /\ test_user_features = <<>>
  /\ test_item_features = <<>>
  /\ SamplerIdle
  /\ RecIdle

LengthsNext == FitCall \/ TransformCall

SpecLengths == LengthsInit /\ [][LengthsNext]_vars

\* ------------------------------------------------- the negative sampler
SamplerInit == FbIdle /\ SamplerNew /\ SamplerDataInit /\ RecIdle

SamplerNext == SamplerCall \/ AppendPositive \/ DrawNegative \/ Finish

SpecSampler == SamplerInit /\ [][SamplerNext]_vars

\* a call that has started runs on (the code is sequential), and the uniform
\* draws are fair: every item of [0, n_items) is drawn again and again while
\* the inner loop runs
SamplerFairness ==
  /\ WF_vars(AppendPositive)
  /\ WF_vars(Finish)
  /\ \A x \in 0..(MaxSamplerItems - 1) : WF_vars(Draw(x))

SpecSamplerFair == SamplerInit /\ [][SamplerNext]_vars /\ SamplerFairness

\* ---------------------------------------------------- recommend_user
RecommendInit == FbIdle /\ SamplerIdle /\ RecNew /\ RecModelInit

RecommendNext == RecommendUserCall \/ RecommendUserReturn

SpecRecommend == RecommendInit /\ [][RecommendNext]_vars

\* ================================================================ claims
\* ---- helpers of the statements
Fitted == fb_op \in {"fit", "transform"}

RECURSIVE SumDistinct(_)
SumDistinct(cols) ==
  IF cols = <<>> THEN 0
  ELSE Cardinality(Range(Head(cols).vals)) + SumDistinct(Tail(cols))

\* the values the training column called name held ({} when there is none)
TrainValues(name) ==
  UNION {Range(categorical_features[c].vals) :
           c \in {d \in DOMAIN categorical_features :
                    categorical_features[d].name = name}}

\* output column of categorical column c, of the user and of the item block
FitCatPos(c) == Len(numerical_features) + c
FitUserPos == Len(numerical_features) + Len(categorical_features) + 1
FitItemPos == FitUserPos + 1
TestCatPos(c) == Len(test_num_feat) + c
TestUserPos == Len(test_num_feat) + Len(test_cat_feat) + 1
TestItemPos == TestUserPos + 1

SameColumns ==
  /\ Len(test_num_feat) = Len(numerical_features)
  /\ Len(test_cat_feat) = Len(categorical_features)
  /\ \A c \in DOMAIN test_cat_feat :
       test_cat_feat[c].name = categorical_features[c].name

\* C1: after fit, feature_size is exactly the number of numerical columns
\* plus the distinct values of every categorical column plus, when the
\* identity blocks are on, n_users + n_items; a column with no value at all
\* adds nothing and fit still returns.
C1_FeatureSizeCoverage ==
  Fitted =>
    /\ feature_size = Len(numerical_features)
                      + SumDistinct(categorical_features)
                      + (IF include_user_item THEN n_users + n_items ELSE 0)
    /\ (numerical_features # <<>> \/ categorical_features # <<>>
          \/ include_user_item) => Len(feature_indices) = train_size

C1_Witness ==
  /\ fb_op = "fit"
  /\ include_user_item
  /\ Len(numerical_features) = 1
  /\ Len(categorical_features) = 2
  /\ Cardinality(Range(categorical_features[1].vals)) = 2
  /\ Cardinality(Range(categorical_features[2].vals)) = 1
  /\ feature_size = 4 + n_users + n_items

C1_WitnessEmptyColumn ==
  /\ fb_op = "fit"
  /\ Len(categorical_features) = 2
  /\ train_size = 0
  /\ feature_size = Len(numerical_features)
                    + (IF include_user_item THEN n_users + n_items ELSE 0)

\* C2: when transform is called with the columns of fit in the same order,
\* every value that a training column held gets, in that column, the index
\* that fit emitted for it.
C2_VocabularyRoundTrip ==
  (fb_op = "transform" /\ SameColumns) =>
    \A c \in DOMAIN test_cat_feat :
      \A r \in 1..test_size, q \in 1..train_size :
        test_cat_feat[c].vals[r] = categorical_features[c].vals[q] =>
          test_feature_indices[r][TestCatPos(c)]
            = feature_indices[q][FitCatPos(c)]

C2_Witness ==
  /\ fb_op = "transform"
  /\ SameColumns
  /\ Len(numerical_features) = 1
  /\ Len(test_cat_feat) = 2
  /\ test_size = 1
  /\ test_cat_feat[2].vals[1] = 2
  /\ Range(categorical_features[1].vals) = {1, 2}
  /\ Range(categorical_features[2].vals) = {1, 2}
  /\ test_feature_indices[1][TestCatPos(2)] = 4

\* C3: in transform a categorical value that its column did not hold during
\* fit is encoded with index feature_size (the total after the identity
\* blocks) and value 1.0, and transform returns.
C3_OovFallback ==
  fb_op = "transform" =>
    /\ test_cat_feat # <<>> => Len(test_feature_indices) = test_size
    /\ \A c \in DOMAIN test_cat_feat :
         \A r \in 1..test_size :
           test_cat_feat[c].vals[r] \notin TrainValues(test_cat_feat[c].name) =>
             /\ test_feature_indices[r][TestCatPos(c)] = feature_size
             /\ test_feature_values[r][TestCatPos(c)] = 1

C3_Witness ==
  /\ fb_op = "transform"
  /\ include_user_item
  /\ test_size = 1
  /\ Len(test_cat_feat) = 1
  /\ TrainValues(test_cat_feat[1].name) = {1, 2}
  /\ test_cat_feat[1].vals[1] = 3
  /\ test_feature_indices[1][TestCatPos(1)] = feature_size
  /\ feature_size > total_count

C9_FitDeterministic ==
  [][(train_fit # <<>> /\ fb_op' = "fit" /\ fitted_on' = "train") =>
       /\ val_index_dict' = train_fit[1].val_index_dict
       /\ total_count' = train_fit[1].total_count
       /\ feature_size' = train_fit[1].feature_size
       /\ feature_indices' = train_fit[1].feature_indices
       /\ feature_values' = train_fit[1].feature_values]_vars

\* the training data fitted a second time, after a fit on other data that
\* gave other totals and a transform
C9_Witness ==
  /\ fb_op = "fit"
  /\ fitted_on = "train"
  /\ train_fit # <<>>
  /\ test_feature_indices # <<>>
  /\ Len(categorical_features) = 1
  /\ Len(test_cat_feat) = 2
  /\ Len(test_num_feat) # Len(numerical_features)
  /\ DOMAIN val_index_dict = {"a"}
  /\ total_count > 0
  /\ test_feature_indices[1][TestCatPos(2)] < feature_size

\* ---- the scenario of C10
ScenarioData ==
  /\ ~include_user_item
  /\ Len(numerical_features) = 3
  /\ Len(categorical_features) = 2
  /\ Cardinality(Range(categorical_features[1].vals)) = 2
  /\ Cardinality(Range(categorical_features[2].vals)) = 3

\* C10 as stated: fit with 3 numerical columns, 2 categorical columns with 2
\* and 3 distinct values and the identity blocks off returns feature_size 5.
C10_ScenarioFeatureSizeFive ==
  (fb_op = "fit" /\ ScenarioData) => feature_size = 5

\* C10 amended: that fit returns feature_size 8 = 3 + 2 + 3.
C10_ScenarioFeatureSizeEight ==
  (fb_op = "fit" /\ ScenarioData) => feature_size = 8

C10_Witness ==
  /\ fb_op = "fit"
  /\ ScenarioData
  /\ total_count = feature_size
  /\ Len(feature_indices) = ScenarioRows

\* ---- helpers of the sampler's statements
Factor == num_neg + 1
TotalLength == DatasetLen * Factor

\* the interaction (1-based) that the 1-based row q of the unshuffled output
\* belongs to
GroupOf(q) == ((q - 1) \div Factor) + 1

\* what the original column c of the sparse (dense) block holds for the
\* synthetic example of user u and item i
SparseCell(u, i, c) ==
  IF c \in Range(user_sparse_col) THEN UserSparseValue(u, c)
  ELSE ItemSparseValue(i, c)
DenseCell(u, i, c) ==
  IF c \in Range(user_dense_col) THEN UserDenseValue(u, c)
  ELSE ItemDenseValue(i, c)

SparseWidth == Len(user_sparse_col) + Len(item_sparse_col)
DenseWidth == Len(user_dense_col) + Len(item_dense_col)

\* C5: when sample_items has returned, every interaction (u, i) is followed
\* by exactly num_neg sampled items, each in [0, n_items) and none consumed
\* by u; every array the call returns has len(dataset) * (num_neg + 1) rows.
C5_SamplingCardinality ==
  pc = "done" =>
    /\ Len(item_indices_sampled) = TotalLength
    /\ \A r \in 1..DatasetLen :
         /\ item_indices_sampled[(r - 1) * Factor + 1] = dataset_item_indices[r]
         /\ \A t \in 1..num_neg :
              LET x == item_indices_sampled[(r - 1) * Factor + 1 + t]
              IN  /\ x \in 0..(data_n_items - 1)
                  /\ x \notin train_user_consumed[dataset_user_indices[r]]
    /\ Len(label_sampled) = TotalLength
    /\ Len(sparse_sampled) = TotalLength
    /\ dense => Len(dense_sampled) = TotalLength

\* two users with one interaction each, three items, two negatives each
C5_Witness ==
  /\ pc = "done"
  /\ num_neg = 2
  /\ data_n_items = 3
  /\ dataset_user_indices = <<0, 1>>
  /\ dataset_item_indices = <<2, 0>>
  /\ item_indices_sampled = <<2, 0, 1, 0, 2, 1>>
  /\ Len(sparse_sampled) = 6

\* C6: the unshuffled label array has len(dataset) * (num_neg + 1) entries,
\* 1.0 at every index k with k mod (num_neg + 1) = 0 and 0.0 elsewhere;
\* num_neg = 2 over 4 interactions gives [1,0,0,1,0,0,1,0,0,1,0,0].
C6_LabelCorrectness ==
  (pc \notin {"idle", "ValueError"} /\ ~random) =>
    /\ Len(label_sampled) = TotalLength
    /\ \A k \in 0..(TotalLength - 1) :
         label_sampled[k + 1] = (IF k % (num_neg + 1) = 0 THEN 1 ELSE 0)
    /\ (DatasetLen = 4 /\ num_neg = 2) =>
         label_sampled = <<1, 0, 0, 1, 0, 0, 1, 0, 0, 1, 0, 0>>

C6_Witness ==
  /\ pc = "done"
  /\ ~random
  /\ DatasetLen = 4
  /\ num_neg = 2
  /\ label_sampled = <<1, 0, 0, 1, 0, 0, 1, 0, 0, 1, 0, 0>>
  /\ Len(sparse_sampled) = 12

\* C7: with random=True the returned sparse, dense and label arrays are the
\* unshuffled ones read through the one permutation random_mask, so row q of
\* each comes from the same synthetic example: its sparse and dense cells are
\* those of one user and one item, and its label is 1.0 exactly when it is
\* the positive row of its group, i.e. when that user consumed that item.
C7_ShuffleConsistency ==
  (pc = "done" /\ random) =>
    /\ Len(random_mask) = TotalLength
    /\ {random_mask[q] : q \in 1..TotalLength} = 0..(TotalLength - 1)
    /\ \A q \in 1..TotalLength :
         LET src == random_mask[q] + 1
             u == dataset_user_indices[GroupOf(src)]
             i == item_indices_sampled[src]
         IN  /\ label_sampled[q] = (IF (src - 1) % Factor = 0 THEN 1 ELSE 0)
             /\ label_sampled[q] = 1 <=> i \in train_user_consumed[u]
             /\ \A p \in 1..SparseWidth :
                  sparse_sampled[q][p] = SparseCell(u, i, p - 1)
             /\ dense => \A p \in 1..DenseWidth :
                  dense_sampled[q][p] = DenseCell(u, i, p - 1)

C7_Witness ==
  /\ pc = "done"
  /\ random
  /\ dense
  /\ num_neg = 1
  /\ dataset_user_indices = <<0, 1>>
  /\ dataset_item_indices = <<1, 2>>
  /\ random_mask = <<2, 1, 3, 0>>
  /\ label_sampled = <<1, 0, 0, 1>>
  /\ sparse_sampled[1] = <<ItemSparseValue(2, 0), UserSparseValue(1, 1)>>
  /\ dense_sampled[4] = <<UserDenseValue(0, 0), ItemDenseValue(1, 1)>>

\* C8: for every split of the column positions 0..n-1 into a user-side and
\* an item-side list, argsort(user_cols + item_cols) picks for output
\* position j the concatenated column whose original position is j, so the
\* returned sparse block and the returned dense block hold at position j the
\* cell of original column j.
C8_ColumnOrder ==
  /\ LET orig == user_sparse_col \o item_sparse_col
     IN  \A j \in 0..(Len(orig) - 1) : orig[ColReindex(orig)[j + 1] + 1] = j
  /\ LET orig == user_dense_col \o item_dense_col
     IN  \A j \in 0..(Len(orig) - 1) : orig[ColReindex(orig)[j + 1] + 1] = j
  /\ (pc = "done" /\ ~random) =>
       \A q \in 1..TotalLength :
         LET u == dataset_user_indices[GroupOf(q)]
             i == item_indices_sampled[q]
         IN  /\ Len(sparse_sampled[q]) = SparseWidth
             /\ \A j \in 0..(SparseWidth - 1) :
                  sparse_sampled[q][j + 1] = SparseCell(u, i, j)
             /\ dense =>
                  /\ Len(dense_sampled[q]) = DenseWidth
                  /\ \A j \in 0..(DenseWidth - 1) :
                       dense_sampled[q][j + 1] = DenseCell(u, i, j)

C8_Witness ==
  /\ pc = "done"
  /\ ~random
  /\ dense
  /\ user_sparse_col = <<1, 2>>
  /\ item_sparse_col = <<0>>
  /\ user_dense_col = <<1>>
  /\ item_dense_col = <<0>>
  /\ sparse_sampled[2] = <<ItemSparseValue(1, 0), UserSparseValue(1, 1),
                           UserSparseValue(1, 2)>>
  /\ dense_sampled[2] = <<ItemDenseValue(1, 0), UserDenseValue(1, 1)>>


\* C11 as stated: transform returns arrays only when its columns are those of
\* fit, in the order of fit (as many numerical columns, the same categorical
\* names in the same order); any other call is refused.
C11_MismatchIsError ==
  fb_op = "transform" =>
    /\ Len(test_num_feat) = Len(numerical_features)
    /\ [c \in DOMAIN test_cat_feat |-> test_cat_feat[c].name]
         = [c \in DOMAIN categorical_features |-> categorical_features[c].name]

\* C12 as stated: a sampler whose num_neg is below 1 never returns sampled
\* arrays from a call.
C12_NumNegBelowOneRejected == num_neg < 1 => pc # "done"

\* C13 as stated, for fit and transform: they return arrays only for data
\* whose user identifiers lie in [0, n_users) and whose item identifiers lie
\* in [0, n_items); in particular no identity index they return falls outside
\* the block of its own kind.
C13_IdentifierOutOfRangeRejected ==
  ((fb_op = "fit" /\ fitted_on = "new") \/ fb_op = "transform") =>
    \A r \in 1..test_size :
      /\ test_user_features[r] \in 0..(n_users - 1)
      /\ test_item_features[r] \in 0..(n_items - 1)

\* C14 as stated: fit returns its arrays only when every numerical and every
\* categorical column has train_size entries.
C14_LengthMismatchIsFatal ==
  fb_op = "fit" =>
    /\ \A j \in DOMAIN numerical_features :
         Len(numerical_features[j]) = train_size
    /\ \A c \in DOMAIN categorical_features :
         Len(categorical_features[c].vals) = train_size

\* C15 as stated: a transform call, whatever columns and values it is given,
\* leaves val_index_dict (its keys and every mapping), total_count,
\* feature_size, n_users and n_items as they were.
C15_TransformLeavesVocabulary ==
  [][fb_op' = "transform" =>
       /\ val_index_dict' = val_index_dict
       /\ total_count' = total_count
       /\ feature_size' = feature_size
       /\ n_users' = n_users
       /\ n_items' = n_items]_vars

\* ---- helpers of C16
\* user u has an item of [0, n_items) outside its consumed set
HasFreeItem(u) == \E x \in 0..(data_n_items - 1) : x \notin train_user_consumed[u]

EveryUserHasFreeItem ==
  \A r \in 1..DatasetLen : HasFreeItem(dataset_user_indices[r])

InSampleItems == pc \in {"for_ui", "for_neg"}

\* sample_items has returned (the call may not have finished yet)
SampleItemsReturned ==
  \/ pc = "for_ui" /\ ui_pos > DatasetLen
  \/ pc \in {"done", "AssertionError", "IndexError"}

\* C16: with fair draws, sample_items, once entered, returns when every user
\* of the dataset has an item outside its consumed set; when num_neg >= 1 and
\* some user of the dataset has consumed every item of [0, n_items),
\* sample_items never returns: the inner loop for that user draws for ever.
C16_RejectionTermination ==
  /\ (InSampleItems /\ EveryUserHasFreeItem) ~> SampleItemsReturned
  /\ []((num_neg >= 1 /\ ~EveryUserHasFreeItem) => ~SampleItemsReturned)

\* a user who consumed two of three items: both negatives are the third one,
\* and the last candidate drawn for the other user was accepted
C16_Witness ==
  /\ pc = "done"
  /\ num_neg = 2
  /\ data_n_items = 3
  /\ dataset_user_indices = <<0, 0>>
  /\ dataset_item_indices = <<0, 1>>
  /\ item_indices_sampled = <<0, 2, 2, 1, 2, 2>>

\* a user who consumed both items: a draw was refused in the loop that no
\* draw can leave
C16_WitnessSaturated ==
  /\ pc = "for_neg"
  /\ num_neg >= 1
  /\ data_n_items = 2
  /\ dataset_user_indices = <<0, 0>>
  /\ dataset_item_indices = <<0, 1>>
  /\ item_neg = 1
  /\ item_indices_sampled = <<0>>

\* ---- helpers of C17
\* the first index of the block of training column c: the numerical columns
\* and the blocks of the columns before it come first
BlockOffset(c) ==
  Len(numerical_features) + SumDistinct(SubSeq(categorical_features, 1, c - 1))

\* the values of training column c
ColumnValues(c) == Range(categorical_features[c].vals)

\* the mapping recorded for training column c
Mapping(c) == val_index_dict[categorical_features[c].name]

\* C17: after fit, the mapping recorded for a categorical column has exactly
\* the column's distinct training values as keys and sends them, in ascending
\* order of the value, one-to-one onto the block [offset, offset + number of
\* distinct values); the blocks of different columns and the numerical
\* indices 0..m-1 do not overlap, so no two (column, value) pairs share an
\* index; the index emitted for a training example is the mapping of its
\* value.
C17_VocabularyInvariant ==
  Fitted =>
    /\ \A c \in DOMAIN categorical_features :
         /\ categorical_features[c].name \in DOMAIN val_index_dict
         /\ DOMAIN Mapping(c) = ColumnValues(c)
         /\ \A v \in ColumnValues(c) :
              Mapping(c)[v] = BlockOffset(c)
                + Cardinality({w \in ColumnValues(c) : w < v})
         /\ {Mapping(c)[v] : v \in ColumnValues(c)}
              = BlockOffset(c)..(BlockOffset(c) + Cardinality(ColumnValues(c)) - 1)
         /\ \A v \in ColumnValues(c) :
              Mapping(c)[v] \notin 0..(Len(numerical_features) - 1)
         /\ \A r \in 1..train_size :
              feature_indices[r][FitCatPos(c)]
                = Mapping(c)[categorical_features[c].vals[r]]
    /\ \A c, d \in DOMAIN categorical_features :
         \A v \in ColumnValues(c), w \in ColumnValues(d) :
           Mapping(c)[v] = Mapping(d)[w] => (c = d /\ v = w)

\* one numerical column and two categorical columns with the values 1 and 2,
\* the larger value first in the second column
C17_Witness ==
  /\ fb_op = "fit"
  /\ Len(numerical_features) = 1
  /\ Len(categorical_features) = 2
  /\ categorical_features[1].vals = <<1, 2>>
  /\ categorical_features[2].vals = <<2, 1>>
  /\ val_index_dict["a"][1] = 1
  /\ val_index_dict["a"][2] = 2
  /\ val_index_dict["b"][1] = 3
  /\ val_index_dict["b"][2] = 4
  /\ feature_indices[1][FitCatPos(2)] = 4

\* C18: in the unshuffled output, rows k*(num_neg+1) .. k*(num_neg+1)+num_neg
\* belong to the k-th interaction (u, i): the first carries item i, the others
\* carry the num_neg sampled items; in each of these rows the user-side sparse
\* and dense columns are those of the k-th dataset row and the item-side
\* columns are the entry of the row's own item in item_sparse_unique /
\* item_dense_unique.
C18_GroupStructure ==
  (pc = "done" /\ ~random) =>
    /\ Len(sparse_sampled) = TotalLength
    /\ \A k \in 0..(DatasetLen - 1) :
         /\ item_indices_sampled[k * Factor + 1] = dataset_item_indices[k + 1]
         /\ \A t \in 0..num_neg :
              LET q == k * Factor + t + 1
                  item == item_indices_sampled[q]
              IN  /\ item \in 0..(data_n_items - 1)
                  /\ \A p \in DOMAIN user_sparse_col :
                       sparse_sampled[q][user_sparse_col[p] + 1]
                         = DatasetSparseIndices[k + 1][user_sparse_col[p] + 1]
                  /\ \A p \in DOMAIN item_sparse_col :
                       sparse_sampled[q][item_sparse_col[p] + 1]
                         = ItemSparseUnique[item][p]
                  /\ dense =>
                       /\ \A p \in DOMAIN user_dense_col :
                            dense_sampled[q][user_dense_col[p] + 1]
                              = DatasetDenseValues[k + 1][user_dense_col[p] + 1]
                       /\ \A p \in DOMAIN item_dense_col :
                            dense_sampled[q][item_dense_col[p] + 1]
                              = ItemDenseUnique[item][p]

\* two interactions of two users, one negative each: the rows of the second
\* group carry the second user, the sampled row the sampled item
C18_Witness ==
  /\ pc = "done"
  /\ ~random
  /\ dense
  /\ num_neg = 1
  /\ data_n_items = 3
  /\ dataset_user_indices = <<0, 1>>
  /\ dataset_item_indices = <<2, 0>>
  /\ item_indices_sampled = <<2, 1, 0, 2>>
  /\ sparse_sampled[3] = <<ItemSparseValue(0, 0), UserSparseValue(1, 1)>>
  /\ sparse_sampled[4] = <<ItemSparseValue(2, 0), UserSparseValue(1, 1)>>
  /\ dense_sampled[2] = <<UserDenseValue(0, 0), ItemDenseValue(1, 1)>>

\* ---- helpers of C19
RecItems == 0..(rec_n_items - 1)

\* l is a list of n (item, score) pairs: the items differ, none is consumed,
\* each comes with its score, the scores do not rise, and no unconsumed item
\* left out scores more than one that is in the list
TopUnconsumed(l, n) ==
  /\ Len(l) = n
  /\ \A q \in DOMAIN l :
       /\ l[q][1] \in RecItems \ consumed
       /\ l[q][2] = Score(l[q][1])
  /\ \A q, h \in DOMAIN l : q # h => l[q][1] # l[h][1]
  /\ \A q \in 1..(Len(l) - 1) : l[q][2] >= l[q + 1][2]
  /\ \A j \in RecItems \ consumed :
       (\A q \in DOMAIN l : l[q][1] # j) =>
         \A q \in DOMAIN l : Score(j) <= l[q][2]

\* C19 as stated: for every known user, user 0 included, and every n_rec with
\* n_rec + |consumed| <= n_items, recommend_user returns a list of exactly
\* n_rec (item, score) pairs by falling score, none consumed, the n_rec
\* highest-scored unconsumed items.
C19_RecommendUser ==
  rec_pc = "returned" =>
    /\ ~recommendation.none
    /\ TopUnconsumed(recommendation.list, n_rec)

\* C19 for the users other than user 0: the list is as the claim says.
C19_RecommendUserAboveZero ==
  (rec_pc = "returned" /\ user # 0) =>
    /\ ~recommendation.none
    /\ TopUnconsumed(recommendation.list, n_rec)

\* user 1 consumed the best of three items; of the two others, which score
\* the same, one is recommended
C19_WitnessAboveZero ==
  /\ rec_pc = "returned"
  /\ user = 1
  /\ recos = <<2, 2, 3>>
  /\ consumed = {2}
  /\ n_rec = 1
  /\ recommendation = ReturnList(<<(<<1, 2>>)>>)
====
